---------------------------- MODULE Spec2Model ----------------------------
(***************************************************************************)
(* A model of the product-sheet service of src/pp/main.py: the in-memory   *)
(* product store, the description generator, the PrestaShop adapter and    *)
(* the HTTP handlers.                                                      *)
(*                                                                         *)
(* Representation.                                                         *)
(*  - A Python str is a sequence of symbols.  A symbol is one character,   *)
(*    or a fixed literal of the source that holds none of the characters   *)
(*    the code tests (".", ";", the double quote, CR, LF, upper case).     *)
(*  - Optional[T] is a sequence of length 0 (None) or 1 (<<value>>).       *)
(*  - A dict is a function from its keys; the empty dict is <<>>.          *)
(*  - A float price n stands for n.0.                                      *)
(*  - str(uuid.uuid4()) is an opaque identifier, a number of Ids.          *)
(*  - Product.created_at (a wall-clock stamp) is left out of the record:   *)
(*    no operation reads it.                                               *)
(***************************************************************************)
EXTENDS Integers, Sequences, FiniteSets, TLC

\* Store capacity explored by the model (the code's list is unbounded).
MaxProducts == 2

\* Threads of the server's pool explored by the concurrent specification.
NumWorkers == 2

---------------------------------------------------------------------------
(* Python values *)

None == <<>>

Some(x) == <<x>>

\* bool(x) for an Optional[str] / Optional[List]: None and "" / [] are falsy.
TruthySeq(o) == Len(o) = 1 /\ Len(o[1]) > 0

\* bool(x) for an Optional[float]: None and 0.0 are falsy.
TruthyNum(o) == Len(o) = 1 /\ o[1] # 0

\* dict.get(key): the value, or None when the key is absent.
Get(d, k) == IF k \in DOMAIN d THEN Some(d[k]) ELSE None

\* `x or None` on a str or list value.
SeqOrNone(o) == IF TruthySeq(o) THEN o ELSE None

\* `x or None` on a float value.
NumOrNone(o) == IF TruthyNum(o) THEN o ELSE None

\* `x or ""` on an Optional[str].
SeqOrEmpty(o) == IF TruthySeq(o) THEN o[1] ELSE <<>>

\* str.endswith(".")
EndsWithPeriod(s) == Len(s) > 0 /\ s[Len(s)] = "."

\* str.lower(), character by character.
LowerChar(c) ==
    CASE c = "C" -> "c"
      [] c = "A" -> "a"
      [] c = "B" -> "b"
      [] OTHER -> c

Lower(s) == [i \in 1..Len(s) |-> LowerChar(s[i])]

\* sep.join(items)
RECURSIVE Join(_, _)
Join(sep, items) ==
    IF Len(items) = 0 THEN <<>>
    ELSE IF Len(items) = 1 THEN items[1]
    ELSE items[1] \o sep \o Join(sep, Tail(items))

\* str(x) of a float with an integral value below ten: "5.0".
Digits == <<"0", "1", "2", "3", "4", "5", "6", "7", "8", "9">>

FloatStr(n) == <<Digits[n + 1], ".", "0">>

---------------------------------------------------------------------------
(* The translator: GoogleTranslator(source="en", target="fr").translate *)

\* The French text the remote service gives for an English text.
Fr(text) == <<"fr:">> \o text

\* One call: it raises ("fail"), returns the translation ("ok"), or returns
\* the translation closed by a period of its own ("ok_dot").
TrOutcomes == {"fail", "ok", "ok_dot"}

\* What a call that does not raise returns.
Translated(text, outcome) ==
    IF outcome = "ok_dot" THEN Fr(text) \o <<".">> ELSE Fr(text)

---------------------------------------------------------------------------
(* generate_french_description *)

\* Variant: a failed translation leaves an error marker in place of the feature.
TranslateFeature_Marker(feat, outcome) ==
    IF outcome = "fail" THEN <<"[erreur]">> ELSE Translated(feat, outcome)

\* try: translate(feat)  except Exception: feat
TranslateFeature(feat, outcome) ==
    IF outcome = "fail" THEN feat ELSE Translated(feat, outcome)

OpeningPart(name, brand) ==
    IF Len(name) > 0
    THEN IF TruthySeq(brand)
         THEN << <<"Decouvrez ">> \o name \o <<" de la marque ">> \o brand[1] \o <<".">> >>
         ELSE << <<"Decouvrez ">> \o name \o <<".">> >>
    ELSE <<>>

CategoryPart(category) ==
    IF TruthySeq(category)
    THEN << <<"Il s'agit d'un(e) ">> \o Lower(category[1]) \o <<".">> >>
    ELSE <<>>

\* tr[i] is the outcome of the i-th translation call of this request.
FeaturesPart(features, tr) ==
    IF TruthySeq(features)
    THEN LET features_fr == [i \in 1..Len(features[1]) |->
                                TranslateFeature(features[1][i], tr[i])]
         IN << <<"Caracteristiques principales : ">>
                 \o Join(<<";", " ">>, features_fr) \o <<".">> >>
    ELSE <<>>

\* The number of translation calls made for the features.
FeatureCalls(features) == IF TruthySeq(features) THEN Len(features[1]) ELSE 0

EnglishPart(features, english_desc, tr) ==
    IF TruthySeq(english_desc)
    THEN IF tr[FeatureCalls(features) + 1] = "fail"
         THEN << english_desc[1] >>
         ELSE << Translated(english_desc[1], tr[FeatureCalls(features) + 1]) >>
    ELSE <<>>

\* Variant: the final period is never added.
EnsurePeriod_Skipped(description) == description

\* if not description.endswith("."): description += "."
EnsurePeriod(description) ==
    IF ~EndsWithPeriod(description) THEN description \o <<".">> ELSE description

generate_french_description(name, brand, category, features, english_desc, tr) ==
    LET parts == OpeningPart(name, brand) \o CategoryPart(category)
                   \o FeaturesPart(features, tr)
                   \o EnglishPart(features, english_desc, tr)
    IN EnsurePeriod(Join(<<" ">>, parts))

\* The number of translation calls one request makes.
TranslationCalls(features, english_desc) ==
    FeatureCalls(features) + (IF TruthySeq(english_desc) THEN 1 ELSE 0)

---------------------------------------------------------------------------
(* State *)

VARIABLES
    products,   \* ProductDatabase._products of products_db
    issued,     \* the identifiers uuid.uuid4() has returned so far
    request,    \* the request handled last (sequential server)
    response,   \* the response given to it
    created,    \* the products returned by the successful searches, in order
    threads,    \* concurrent server: each pool thread's position and locals
    adds_done,  \* concurrent server: the add calls that have returned
    presta      \* the PrestaShop adapter: configuration, last call, outcome

vars == <<products, issued, request, response, created, threads, adds_done, presta>>

---------------------------------------------------------------------------
(* Inputs *)

\* Request bodies of POST /api/search: ean and sku absent/null, empty or given.
Ean1 == <<"1", "2">>

Sku1 == <<"A", ";", "b">>

Payloads ==
    { [ean |-> None,       sku |-> None],
      [ean |-> Some(<<>>), sku |-> None],
      [ean |-> None,       sku |-> Some(<<>>)],
      [ean |-> Some(<<>>), sku |-> Some(<<>>)],
      [ean |-> Some(Ean1), sku |-> None],
      [ean |-> None,       sku |-> Some(Sku1)],
      [ean |-> Some(Ean1), sku |-> Some(Sku1)],
      [ean |-> Some(<<>>), sku |-> Some(Sku1)] }

\* What a product data source may answer: nothing (the stubs of the source)
\* or a partial set of the fields perform_product_lookup names.
EmptyDict == <<>>

\* Fields present but falsy.
FalsySheet ==
    [name |-> <<>>, brand |-> <<>>, price |-> 0, description |-> <<>>,
     features |-> <<>>]

\* Structured fields only: nothing to translate.
CatalogSheet ==
    [name |-> <<"T", "\"">>, brand |-> <<"B">>, category |-> <<"C", "a">>,
     price |-> 5, original_price |-> 7, image |-> <<"u">>,
     material |-> <<"m">>, type |-> <<"t">>]

\* Every field, with two features and an English text without final period.
FullSheet ==
    [name |-> <<"T", "\"">>, brand |-> <<"B">>, category |-> <<"C", "a">>,
     price |-> 5, original_price |-> 7, description |-> <<"d">>,
     features |-> << <<"f">>, <<"g">> >>, image |-> <<"u">>,
     material |-> <<"m">>, type |-> <<"t">>]

\* Features alone, and an English text alone that ends with a period.
FeaturesSheet == [features |-> << <<"f">>, <<"g">> >>]

TextSheet == [description |-> <<"d", ".">>]

\* The answers explored with a store of several products ...
LookupResults == {EmptyDict, FalsySheet, CatalogSheet}

\* ... and those explored for one search on a fresh store.
SheetResults == LookupResults \cup {FullSheet, FeaturesSheet, TextSheet}

\* The identifiers uuid.uuid4() draws from.
Ids == 1..(MaxProducts + 1)

---------------------------------------------------------------------------
(* ProductDatabase *)

\* Variants: the product is inserted at the front; the list is replaced by
\* the new product alone.
add_Front(prods, product) == <<product>> \o prods

add_Reset(prods, product) == <<product>>

add(prods, product) == Append(prods, product)

get_all(prods) == prods

get_by_id(prods, product_id) ==
    LET hits == {i \in 1..Len(prods) : prods[i].id = product_id}
    IN IF hits = {} THEN None
       ELSE Some(prods[CHOOSE i \in hits : \A j \in hits : i <= j])

---------------------------------------------------------------------------
(* Product.to_prestashop_row and the csv.DictWriter of the export *)

Fieldnames ==
    << <<"Name">>, <<"Price">>, <<"Description">>, <<"Reference">>, <<"EAN">>,
       <<"Category">>, <<"ImageURL">>, <<"Brand">> >>

\* Variant: Reference and EAN exchanged.
to_prestashop_row_Swapped(p) ==
    << p.name,
       IF TruthyNum(p.price) THEN FloatStr(p.price[1]) ELSE <<>>,
       p.description,
       SeqOrEmpty(p.ean),
       SeqOrEmpty(p.sku),
       SeqOrEmpty(p.category),
       SeqOrEmpty(p.image),
       SeqOrEmpty(p.brand) >>

\* The row's values in the order of its keys; the writer turns each into text.
to_prestashop_row(p) ==
    << p.name,
       IF TruthyNum(p.price) THEN FloatStr(p.price[1]) ELSE <<>>,
       p.description,
       SeqOrEmpty(p.sku),
       SeqOrEmpty(p.ean),
       SeqOrEmpty(p.category),
       SeqOrEmpty(p.image),
       SeqOrEmpty(p.brand) >>

\* csv, QUOTE_MINIMAL, delimiter ";": a field is quoted when it holds the
\* delimiter, the quote character or a character of the line terminator, and
\* a quote character inside it is doubled.
CsvSpecial == {";", "\"", "\r", "\n"}

RECURSIVE DoubleQuotes(_)
DoubleQuotes(s) ==
    IF Len(s) = 0 THEN <<>>
    ELSE (IF s[1] = "\"" THEN <<"\"", "\"">> ELSE <<s[1]>>) \o DoubleQuotes(Tail(s))

CsvField(s) ==
    IF \E i \in 1..Len(s) : s[i] \in CsvSpecial
    THEN <<"\"">> \o DoubleQuotes(s) \o <<"\"">>
    ELSE s

CsvLine(fields) ==
    Join(<<";">>, [i \in 1..Len(fields) |-> CsvField(fields[i])]) \o <<"\r", "\n">>

\* writer.writeheader(); writer.writerow(row); csv_buffer.getvalue()
CsvData(p) == CsvLine(Fieldnames) \o CsvLine(to_prestashop_row(p))

---------------------------------------------------------------------------
(* search_product's steps *)

perform_product_lookup(search_req, by_ean, by_sku) ==
    IF TruthySeq(search_req.ean) THEN by_ean
    ELSE IF TruthySeq(search_req.sku) THEN by_sku
    ELSE EmptyDict

\* payload.ean or payload.sku or ""
SearchTerm(payload) ==
    IF TruthySeq(payload.ean) THEN payload.ean[1]
    ELSE IF TruthySeq(payload.sku) THEN payload.sku[1]
    ELSE <<>>

\* Variant: the SKU takes precedence over the EAN.
SearchType_SkuFirst(payload) ==
    IF TruthySeq(payload.sku) THEN <<"S", "K", "U">> ELSE <<"E", "A", "N">>

\* "EAN" if payload.ean else "SKU"
SearchType(payload) ==
    IF TruthySeq(payload.ean) THEN <<"E", "A", "N">> ELSE <<"S", "K", "U">>

\* lookup_data.get("name") or (f"Produit {type} {term}" if term else "Produit inconnu")
ProductName(payload, lookup_data) ==
    IF TruthySeq(Get(lookup_data, "name")) THEN lookup_data.name
    ELSE IF Len(SearchTerm(payload)) > 0
         THEN <<"Produit ">> \o SearchType(payload) \o <<" ">> \o SearchTerm(payload)
         ELSE <<"Produit inconnu">>

\* Variant: only None counts as missing, the empty string does not.
MissingCode_NoneOnly(payload) == payload.ean = None /\ payload.sku = None

\* The missing-identifier test of the handler.
MissingCode(payload) == ~TruthySeq(payload.ean) /\ ~TruthySeq(payload.sku)

\* The Product the handler builds; tr holds the translation calls' outcomes.
NewProduct(id, payload, lookup_data, tr) ==
    LET name == ProductName(payload, lookup_data)
        brand == SeqOrNone(Get(lookup_data, "brand"))
        category == SeqOrNone(Get(lookup_data, "category"))
        english_desc == SeqOrNone(Get(lookup_data, "description"))
        features == SeqOrNone(Get(lookup_data, "features"))
    IN [id |-> id,
        ean |-> payload.ean,
        sku |-> payload.sku,
        name |-> name,
        brand |-> brand,
        category |-> category,
        price |-> NumOrNone(Get(lookup_data, "price")),
        original_price |-> NumOrNone(Get(lookup_data, "original_price")),
        description |->
            generate_french_description(name, brand, category, features, english_desc, tr),
        features |-> features,
        image |-> SeqOrNone(Get(lookup_data, "image")),
        material |-> SeqOrNone(Get(lookup_data, "material")),
        type |-> SeqOrNone(Get(lookup_data, "type")),
        search_type |-> SearchType(payload),
        search_term |-> SearchTerm(payload)]

\* The outcomes of the translation calls a lookup result leads to.
TrChoices(lookup_data) ==
    [1..TranslationCalls(SeqOrNone(Get(lookup_data, "features")),
                         SeqOrNone(Get(lookup_data, "description"))) -> TrOutcomes]

\* Variant: an identifier source that may return a value again.
uuid4_Repeating == Ids

\* uuid.uuid4(): an identifier it has not returned before.
uuid4 == Ids \ issued

---------------------------------------------------------------------------
(* Responses *)

\* raise HTTPException(status_code=..., detail=...)
HTTPException(status_code, detail) == [status |-> status_code, detail |-> detail]

\* JSONResponse(content={"success": True, "product": product.dict()})
SearchOk(product) == [status |-> 200, success |-> TRUE, product |-> product]

\* JSONResponse(content={"success": True, "products": [...]})
ProductsOk(prods) == [status |-> 200, success |-> TRUE, products |-> prods]

\* templates.TemplateResponse("index.html", {..., "products": ...})
HomeOk(prods) == [status |-> 200, template |-> "index.html", products |-> prods]

\* JSONResponse(content={"status": "OK", "products_count": ...})
HealthOk(prods) == [status |-> 200, health |-> "OK", products_count |-> Len(prods)]

\* Response(content=csv_data, media_type="text/csv", headers={...})
ExportOk(product) ==
    [status |-> 200, content |-> CsvData(product), media_type |-> "text/csv",
     filename |-> <<"fiche_", product.id, ".csv">>]

---------------------------------------------------------------------------
(* The HTTP handlers, one request at a time *)

concVars == <<threads, adds_done>>

\* POST /api/search with the given body, data-source answers, translation
\* outcomes and uuid4 draw.
SearchHandler(payload, by_ean, by_sku, tr, id) ==
    IF MissingCode(payload)
    THEN /\ request' = [op |-> "search", payload |-> payload]
         /\ response' = HTTPException(400,
                          <<"Veuillez fournir un code EAN ou une reference SKU.">>)
         /\ UNCHANGED <<products, issued, created, concVars, presta>>
    ELSE LET lookup_data == perform_product_lookup(payload, by_ean, by_sku)
             product == NewProduct(id, payload, lookup_data, tr)
         IN /\ issued' = issued \cup {id}
            /\ products' = add(products, product)
            /\ request' = [op |-> "search", payload |-> payload,
                           lookup_data |-> lookup_data, tr |-> tr]
            /\ response' = SearchOk(product)
            /\ created' = Append(created, product)
            /\ UNCHANGED <<concVars, presta>>

\* The body is validated before any data source, translator or uuid4 is
\* called: a request without code reaches none of them.
search_product ==
    \E payload \in Payloads :
        IF MissingCode(payload)
        THEN SearchHandler(payload, EmptyDict, EmptyDict, <<>>, 0)
        ELSE /\ Len(products) < MaxProducts
             /\ \E by_ean \in LookupResults, by_sku \in LookupResults :
                  \E tr \in TrChoices(perform_product_lookup(payload, by_ean, by_sku)),
                     id \in uuid4 :
                      SearchHandler(payload, by_ean, by_sku, tr, id)

\* GET /
home ==
    /\ request' = [op |-> "home"]
    /\ response' = HomeOk(get_all(products))
    /\ UNCHANGED <<products, issued, created, concVars, presta>>

\* GET /api/products
get_products ==
    /\ request' = [op |-> "products"]
    /\ response' = ProductsOk(get_all(products))
    /\ UNCHANGED <<products, issued, created, concVars, presta>>

\* GET /api/export/{product_id}
export_prestashop_csv ==
    \E product_id \in Ids :
        LET product == get_by_id(products, product_id)
        IN /\ request' = [op |-> "export", product_id |-> product_id]
           /\ response' = IF product = None
                          THEN HTTPException(404, <<"Produit non trouve">>)
                          ELSE ExportOk(product[1])
           /\ UNCHANGED <<products, issued, created, concVars, presta>>

\* GET /api/health
health_check ==
    /\ request' = [op |-> "health"]
    /\ response' = HealthOk(get_all(products))
    /\ UNCHANGED <<products, issued, created, concVars, presta>>

\* products_db = ProductDatabase() at import; no request handled yet.
InitStore == products = <<>> /\ issued = {}

InitHttp == request = [op |-> "none"] /\ response = [status |-> 0] /\ created = <<>>

InitIdleThreads == threads = <<>> /\ adds_done = 0

InitNoPresta == presta = [pc |-> "unused"]

Init == InitStore /\ InitHttp /\ InitIdleThreads /\ InitNoPresta

Next ==
    \/ search_product
    \/ home
    \/ get_products
    \/ export_prestashop_csv
    \/ health_check

Spec == Init /\ [][Next]_vars

---------------------------------------------------------------------------
(* One search, on a fresh store or after an earlier one, over every answer   *)
(* of the data sources and every outcome of the translation calls           *)

\* The product of an earlier search by EAN that the stub data source answered.
EarlierProduct == NewProduct(1, [ean |-> Some(Ean1), sku |-> None], EmptyDict, <<>>)

\* A search request received by a process that has served none yet, or one.
InitSearch ==
    /\ InitIdleThreads /\ InitNoPresta
    /\ \E earlier \in {<<>>, <<EarlierProduct>>} :
         /\ products = earlier
         /\ created = earlier
         /\ issued = {earlier[i].id : i \in 1..Len(earlier)}
    /\ response = [status |-> 0]
    /\ \E payload \in Payloads, by_ean \in SheetResults, by_sku \in SheetResults :
         \E tr \in TrChoices(perform_product_lookup(payload, by_ean, by_sku)) :
            request = [op |-> "pending", payload |-> payload,
                       by_ean |-> by_ean, by_sku |-> by_sku, tr |-> tr]

first_search ==
    /\ request.op = "pending"
    /\ \E id \in uuid4 :
         SearchHandler(request.payload, request.by_ean, request.by_sku, request.tr, id)

NextSearch == first_search

SpecSearch == InitSearch /\ [][NextSearch]_vars

---------------------------------------------------------------------------
(* The handlers run by the threads of the server's pool (FastAPI runs a      *)
(* plain `def` endpoint in a worker thread).  A step is one access to the    *)
(* shared list: list.append and list(...) are each one indivisible call of   *)
(* the interpreter.  The data sources answer as the stubs of the source do.  *)

Workers == 1..NumWorkers

ConcPayloads ==
    { [ean |-> None,       sku |-> None],
      [ean |-> Some(Ean1), sku |-> Some(Sku1)] }

IdleThread == [pc |-> "idle", op |-> "none", local |-> <<>>, seen |-> 0,
               resp |-> [status |-> 0]]

\* Products built by threads that have not appended them yet.
InFlight == Cardinality({w \in Workers : threads[w].pc = "add"})

\* search_product up to the Product(...) construction, or up to the 400.
conc_search_build(w) ==
    /\ threads[w].pc = "idle"
    /\ \E payload \in ConcPayloads :
         IF MissingCode(payload)
         THEN /\ threads' = [threads EXCEPT ![w] =
                    [IdleThread EXCEPT !.resp =
                        HTTPException(400,
                          <<"Veuillez fournir un code EAN ou une reference SKU.">>)]]
              /\ UNCHANGED <<products, issued, adds_done>>
         ELSE /\ Len(products) + InFlight < MaxProducts
              /\ \E id \in uuid4 :
                   LET lookup_data ==
                           perform_product_lookup(payload, EmptyDict, EmptyDict)
                       product == NewProduct(id, payload, lookup_data, <<>>)
                   IN /\ issued' = issued \cup {id}
                      /\ threads' = [threads EXCEPT ![w] =
                            [IdleThread EXCEPT !.pc = "add", !.op = "search",
                                               !.local = product]]
                      /\ UNCHANGED <<products, adds_done>>
    /\ UNCHANGED <<request, response, created, presta>>

\* products_db.add(product)
conc_search_add(w) ==
    /\ threads[w].pc = "add"
    /\ products' = add(products, threads[w].local)
    /\ adds_done' = adds_done + 1
    /\ threads' = [threads EXCEPT ![w].pc = "return"]
    /\ UNCHANGED <<issued, request, response, created, presta>>

\* return JSONResponse(...)
conc_search_return(w) ==
    /\ threads[w].pc = "return"
    /\ threads' = [threads EXCEPT ![w] =
          [IdleThread EXCEPT !.resp = SearchOk(threads[w].local)]]
    /\ UNCHANGED <<products, issued, adds_done, request, response, created, presta>>

\* products_db.get_all() of get_products or health_check
conc_get_all(w) ==
    /\ threads[w].pc = "idle"
    /\ \E op \in {"products", "health"} :
         threads' = [threads EXCEPT ![w] =
            [IdleThread EXCEPT !.pc = "reply", !.op = op,
                               !.local = get_all(products), !.seen = adds_done]]
    /\ UNCHANGED <<products, issued, adds_done, request, response, created, presta>>

\* return JSONResponse(...) built from the snapshot
conc_reply(w) ==
    /\ threads[w].pc = "reply"
    /\ threads' = [threads EXCEPT ![w] =
          [IdleThread EXCEPT !.resp = IF threads[w].op = "health"
                                      THEN HealthOk(threads[w].local)
                                      ELSE ProductsOk(threads[w].local)]]
    /\ UNCHANGED <<products, issued, adds_done, request, response, created, presta>>

InitConc ==
    /\ InitStore /\ InitHttp /\ InitNoPresta
    /\ threads = [w \in Workers |-> IdleThread]
    /\ adds_done = 0

NextConc ==
    \E w \in Workers :
        \/ conc_search_build(w)
        \/ conc_search_add(w)
        \/ conc_search_return(w)
        \/ conc_get_all(w)
        \/ conc_reply(w)

SpecConc == InitConc /\ [][NextConc]_vars

---------------------------------------------------------------------------
(* create_product_in_prestashop *)

Url1 == <<"http://shop">>

Key1 == <<"K">>

\* PRESTASHOP_BASE_URL / PRESTASHOP_API_KEY: os.environ.get at import.
BaseUrls == {None, Some(<<>>), Some(Url1)}

ApiKeys == {None, Some(Key1)}

\* Products handed to the adapter.
SampleProducts ==
    { NewProduct(1, payload, sheet, <<>>) :
        payload \in {pl \in Payloads : ~MissingCode(pl)},
        sheet \in {EmptyDict, CatalogSheet} }

\* What requests.post does: it raises, or returns a response.
RemoteStatuses == {200, 201, 204, 400, 401, 403, 404, 500, 503}

RemoteOutcomes ==
    { [raised |-> TRUE, exc |-> e] : e \in { <<"ConnectionError">>, <<"Timeout">> } }
    \cup
    { [raised |-> FALSE, status_code |-> c, text |-> <<"body">>] : c \in RemoteStatuses }

\* The fields the XML document is built from.
ProductXml(product) ==
    [name |-> product.name,
     price |-> IF TruthyNum(product.price) THEN product.price[1] ELSE 0,
     reference |-> SeqOrEmpty(product.sku),
     ean13 |-> SeqOrEmpty(product.ean),
     description |-> product.description,
     id_category_default |-> 2]

\* The function's outcome once the configuration is present.
PrestaResult(remote) ==
    IF remote.raised
    THEN [kind |-> "HTTPException", status |-> 500,
          detail |-> <<"Erreur lors de l'appel a PrestaShop : ">> \o remote.exc]
    ELSE IF remote.status_code \notin {200, 201}
    THEN [kind |-> "HTTPException", status |-> remote.status_code,
          detail |-> <<"Erreur API PrestaShop: ">> \o remote.text]
    ELSE [kind |-> "returned"]

create_product_in_prestashop ==
    \E product \in SampleProducts :
        IF ~TruthySeq(presta.base_url) \/ ~TruthySeq(presta.api_key)
        THEN /\ presta' = [presta EXCEPT !.pc = "called", !.product = product,
                              !.posts = <<>>, !.remote = <<>>,
                              !.result = [kind |-> "RuntimeError"]]
             /\ UNCHANGED <<products, issued, request, response, created, concVars>>
        ELSE \E remote \in RemoteOutcomes :
             /\ presta' = [presta EXCEPT !.pc = "called", !.product = product,
                              !.posts = << [url |-> presta.base_url[1] \o <<"/api/products">>,
                                            data |-> ProductXml(product),
                                            auth |-> presta.api_key[1],
                                            timeout |-> 10] >>,
                              !.remote = remote,
                              !.result = PrestaResult(remote)]
             /\ UNCHANGED <<products, issued, request, response, created, concVars>>

InitPresta ==
    /\ InitStore /\ InitHttp /\ InitIdleThreads
    /\ \E base_url \in BaseUrls, api_key \in ApiKeys :
         presta = [pc |-> "idle", base_url |-> base_url, api_key |-> api_key,
                   product |-> <<>>, posts |-> <<>>, remote |-> <<>>,
                   result |-> [kind |-> "none"]]

NextPresta == create_product_in_prestashop

SpecPresta == InitPresta /\ [][NextPresta]_vars

---------------------------------------------------------------------------
(* Vocabulary of the properties *)

IsPrefix(a, b) == Len(a) <= Len(b) /\ SubSeq(b, 1, Len(a)) = a

IsInfix(x, s) ==
    \E i \in 0..(Len(s) - Len(x)) : SubSeq(s, i + 1, i + Len(x)) = x

IsSuffix(x, s) == Len(x) <= Len(s) /\ SubSeq(s, Len(s) - Len(x) + 1, Len(s)) = x

\* A request field that is absent, null or the empty string.
Missing(o) == o = None \/ o = Some(<<>>)

\* The text of an optional field, the empty string when it is absent.
OptText(o) == IF o = None THEN <<>> ELSE o[1]

\* A reader of semicolon-delimited text with double-quote quoting: the rows
\* of fields that an importer of the exported file sees.
RECURSIVE CsvScan(_, _, _, _, _, _)
CsvScan(text, i, quoted, field, row, rows) ==
    IF i > Len(text)
    THEN IF Len(field) = 0 /\ Len(row) = 0 THEN rows
         ELSE Append(rows, Append(row, field))
    ELSE LET c == text[i]
             double == i < Len(text) /\ text[i + 1] = "\""
             crlf == c = "\r" /\ i < Len(text) /\ text[i + 1] = "\n"
         IN IF quoted
            THEN IF c = "\"" /\ double
                 THEN CsvScan(text, i + 2, TRUE, Append(field, "\""), row, rows)
                 ELSE IF c = "\""
                 THEN CsvScan(text, i + 1, FALSE, field, row, rows)
                 ELSE CsvScan(text, i + 1, TRUE, Append(field, c), row, rows)
            ELSE IF c = "\""
                 THEN CsvScan(text, i + 1, TRUE, field, row, rows)
                 ELSE IF c = ";"
                 THEN CsvScan(text, i + 1, FALSE, <<>>, Append(row, field), rows)
                 ELSE IF crlf
                 THEN CsvScan(text, i + 2, FALSE, <<>>, <<>>,
                              Append(rows, Append(row, field)))
                 ELSE CsvScan(text, i + 1, FALSE, Append(field, c), row, rows)

CsvRows(text) == CsvScan(text, 1, FALSE, <<>>, <<>>, <<>>)

---------------------------------------------------------------------------
(* Properties *)

\* C1: a POST /api/search whose ean and sku are both missing (absent, null
\* or empty) is answered 400, and the step that handles it leaves the store
\* exactly as it was.
C1_MissingCodeRejected ==
    [][(request'.op = "search" /\ Missing(request'.payload.ean)
                               /\ Missing(request'.payload.sku))
        => (response'.status = 400 /\ products' = products)]_vars

\* C1 witness: an empty ean with no sku, refused on a store that holds a product.
C1_Witness ==
    /\ request.op = "search"
    /\ request.payload = [ean |-> Some(<<>>), sku |-> None]
    /\ response.status = 400
    /\ Len(products) = 1

\* C2: starting from the empty store, get_all() returns exactly the products
\* of the successful searches so far, one per search and in the order the
\* searches were made, whatever other requests came in between; GET
\* /api/products answers with that same list.
C2_GetAllInCreationOrder ==
    /\ get_all(products) = created
    /\ (request.op = "products" => response.products = created)

\* C2 witness: two successful searches, then the listing and its two products.
C2_Witness ==
    /\ request.op = "products"
    /\ Len(created) = 2
    /\ Len(response.products) = 2
    /\ created[1] # created[2]

\* C3: the product of a successful search has search_type EAN and the raw
\* ean as search_term when an ean was supplied (also when a sku came with
\* it), and search_type SKU and the raw sku as search_term when only a sku
\* was supplied.
C3_SearchTypeMatchesField ==
    (request.op = "search" /\ response.status = 200) =>
        LET p == response.product
            ean == request.payload.ean
            sku == request.payload.sku
        IN /\ ~Missing(ean) =>
                (p.search_type = <<"E", "A", "N">> /\ p.search_term = ean[1])
           /\ (Missing(ean) /\ ~Missing(sku)) =>
                (p.search_type = <<"S", "K", "U">> /\ p.search_term = sku[1])
           /\ p = products[Len(products)]

\* C3 witness: both fields supplied, the EAN taking precedence.
C3_Witness ==
    /\ request.op = "search"
    /\ response.status = 200
    /\ request.payload = [ean |-> Some(Ean1), sku |-> Some(Sku1)]
    /\ response.product.search_type = <<"E", "A", "N">>

\* The header and the columns an export of product p must show.
C4_Header ==
    << <<"Name">>, <<"Price">>, <<"Description">>, <<"Reference">>, <<"EAN">>,
       <<"Category">>, <<"ImageURL">>, <<"Brand">> >>

C4_Columns(p) ==
    << p.name,
       IF p.price = None THEN <<>> ELSE FloatStr(p.price[1]),
       p.description, OptText(p.sku), OptText(p.ean), OptText(p.category),
       OptText(p.image), OptText(p.brand) >>

\* C4: GET /api/export/{id} answers 404 when no stored product has the
\* identifier; otherwise the file it returns reads as the header row and
\* exactly one data row, whose 8 columns are Name, Price, Description,
\* Reference (sku), EAN, Category, ImageURL, Brand of the product with that
\* identifier, an absent optional field showing as the empty string.
C4_ExportRow ==
    request.op = "export" =>
        LET held == {i \in 1..Len(products) : products[i].id = request.product_id}
        IN IF held = {}
           THEN response.status = 404
           ELSE /\ response.status = 200
                /\ \A i \in held :
                     CsvRows(response.content) = <<C4_Header, C4_Columns(products[i])>>

\* C4 witness: the second of two stored products exported, with a category
\* and without EAN.
C4_Witness ==
    /\ request.op = "export"
    /\ response.status = 200
    /\ Len(products) = 2
    /\ products[2].id = request.product_id
    /\ products[2].ean = None
    /\ products[2].category # None
    /\ products[1].ean # None

\* C5: every product in the store has a description that is not empty and
\* ends with a period, whatever the data source answered and whether each
\* translation call raised or returned.
C5_DescriptionEndsWithPeriod ==
    \A i \in 1..Len(products) :
        LET d == products[i].description
        IN Len(d) > 0 /\ d[Len(d)] = "."

\* C5 witness: a second stored product whose last sentence is the English
\* text, left untranslated and without period of its own.
C5_Witness ==
    /\ Len(products) = 2
    /\ request.op = "search"
    /\ response.status = 200
    /\ Len(request.tr) = 3
    /\ request.tr[3] = "fail"
    /\ "description" \in DOMAIN request.lookup_data
    /\ request.lookup_data.description = <<"d">>

\* What the description shows for a text whose translation call ended in o.
C6_Shown(text, o) ==
    IF o = "fail" THEN text
    ELSE IF o = "ok_dot" THEN <<"fr:">> \o text \o <<".">>
    ELSE <<"fr:">> \o text

\* C6: a search whose translation calls fail, for a feature or for the
\* English text, still succeeds and adds its product; the description holds
\* the sentence of the features, each failed feature in its original form at
\* its own position between the translations of the others, and ends with
\* the English text, in its original form when its translation failed.
C6_TranslationFailureDegrades ==
    (request.op = "search" /\ ~(Missing(request.payload.ean)
                                /\ Missing(request.payload.sku))) =>
        LET ld == request.lookup_data
            tr == request.tr
            d == response.product.description
            fs == IF "features" \in DOMAIN ld THEN ld.features ELSE <<>>
            en == IF "description" \in DOMAIN ld THEN ld.description ELSE <<>>
        IN /\ response.status = 200
           /\ Len(products) > 0
           /\ products[Len(products)] = response.product
           /\ Cardinality({i \in 1..Len(products) : products[i] = response.product}) = 1
           /\ Len(fs) > 0 =>
                IsInfix(<<"Caracteristiques principales : ">>
                          \o Join(<<";", " ">>,
                                  [i \in 1..Len(fs) |-> C6_Shown(fs[i], tr[i])])
                          \o <<".">>, d)
           /\ Len(en) > 0 =>
                \/ IsSuffix(C6_Shown(en, tr[Len(fs) + 1]), d)
                \/ IsSuffix(C6_Shown(en, tr[Len(fs) + 1]) \o <<".">>, d)

\* C6 witness: the first feature and the English text fail, the second
\* feature is translated, and the product is in the store after an earlier one.
C6_Witness ==
    /\ request.op = "search"
    /\ response.status = 200
    /\ Len(products) = 2
    /\ request.tr = <<"fail", "ok", "fail">>
    /\ "features" \in DOMAIN request.lookup_data
    /\ Len(request.lookup_data.features) = 2

\* No two stored products share an identifier.
C7_DistinctIds ==
    \A i, j \in 1..Len(products) : products[i].id = products[j].id => i = j

\* A step keeps the identifier of every stored product, and a product it
\* adds has an identifier no stored product had.
C7_IdsKept ==
    /\ Len(products') >= Len(products)
    /\ \A i \in 1..Len(products) : products'[i].id = products[i].id
    /\ \A i \in (Len(products) + 1)..Len(products') :
         \A j \in 1..Len(products) : products'[i].id # products[j].id

\* C7: the identifiers of the stored products are pairwise distinct, so that
\* get_by_id matches at most one of them; a search gives its product an
\* identifier no stored product has, and no step changes the identifier of
\* a stored product.
C7_UniqueIdentifiers == []C7_DistinctIds /\ [][C7_IdsKept]_vars

\* C7 witness: two stored products, the later one with the smaller identifier.
C7_Witness ==
    /\ Len(products) = 2
    /\ products[1].id > products[2].id
    /\ get_by_id(products, products[2].id) = Some(products[2])

\* C8: across every step the old store is a prefix of the new one; the store
\* grows only by a successful search, and then by exactly one product; GET /,
\* GET /api/products, GET /api/export/{id} and GET /api/health, answered
\* with success or with an error, leave it as it was.
C8_AppendOnly ==
    [][/\ IsPrefix(products, products')
       /\ products' # products =>
            /\ request'.op = "search"
            /\ response'.status = 200
            /\ Len(products') = Len(products) + 1
       /\ request'.op \in {"home", "products", "export", "health"} =>
            products' = products]_vars

\* C8 witness: an export refused with 404 on a store of two products.
C8_Witness ==
    /\ Len(products) = 2
    /\ request.op = "export"
    /\ response.status = 404

\* C9: when the remote catalog call raises or answers with a status outside
\* 2xx, create_product_in_prestashop fails with a server error (5xx) that
\* carries the cause or the remote response text, after exactly one call.
C9_RemoteFailureIsServerError ==
    (presta.pc = "called" /\ Len(presta.posts) > 0
       /\ (presta.remote.raised \/ presta.remote.status_code \notin 200..299)) =>
        /\ presta.result.kind = "HTTPException"
        /\ presta.result.status \in 500..599
        /\ IsSuffix(IF presta.remote.raised THEN presta.remote.exc
                    ELSE presta.remote.text, presta.result.detail)
        /\ Len(presta.posts) = 1

\* C10: with requests handled by concurrent threads, the store holds one
\* product per completed add (none lost, none twice); the product of every
\* search answered with success is in the store exactly once; and every
\* snapshot taken by get_all(), for the listing or the health count, is a
\* prefix of the store whose size is the number of adds completed when it
\* was taken.
C10_AddsSerialized ==
    /\ Len(products) = adds_done
    /\ \A i, j \in 1..Len(products) : products[i] = products[j] => i = j
    /\ \A w \in Workers :
         LET t == threads[w]
         IN /\ t.pc = "return" =>
                Cardinality({i \in 1..Len(products) : products[i] = t.local}) = 1
            /\ (t.resp.status = 200 /\ "product" \in DOMAIN t.resp) =>
                Cardinality({i \in 1..Len(products) : products[i] = t.resp.product}) = 1
            /\ t.pc = "reply" =>
                (IsPrefix(t.local, products) /\ Len(t.local) = t.seen)
            /\ (t.resp.status = 200 /\ "products" \in DOMAIN t.resp) =>
                IsPrefix(t.resp.products, products)
            /\ (t.resp.status = 200 /\ "products_count" \in DOMAIN t.resp) =>
                t.resp.products_count <= adds_done

\* C10 witness: one thread has been answered success for its search while
\* another holds a snapshot taken before that add and a third product is
\* about to be added.
C10_Witness ==
    \E w1, w2 \in Workers :
        /\ threads[w1].resp.status = 200
        /\ "product" \in DOMAIN threads[w1].resp
        /\ threads[w2].pc = "reply"
        /\ Len(threads[w2].local) < Len(products)

=============================================================================
